---- MODULE Spec2Model ----
(***************************************************************************)
(* HD44780 bit-banging LCD driver (src/hd44780.py), modelled as a state    *)
(* machine.  The state is the fields of one HD44780 object and the values  *)
(* last written to its output pins; every public method is one action.     *)
(* `log` holds the pin writes made by the last call, in order, so that the *)
(* bus protocol of a call can be read off the state it leaves.             *)
(***************************************************************************)
EXTENDS Integers, Sequences, FiniteSets, TLC

\* ---------------------------------------------------------------- bounds
\* Largest number of host data pins tried at construction (0..MaxPins).
MaxPins == 9
\* Display widths tried at construction (1..MaxWidth).
MaxWidth == 2
\* Display heights tried at construction (0..MaxHeight).
MaxHeight == 5
\* Longest buffer handed to write.
MaxBuf == 3
\* Display widths tried when only the geometry is looked at
\* (1..MaxGeomWidth): 16, 20 and 40 columns and one column more.
MaxGeomWidth == 41
\* Addresses handed to set_ddram and set_cgram on their own (0..MaxAddr).
MaxAddr == 255

\* ------------------------------------------------------- class constants
DDRAM_TOTAL == 80
DDRAM0_START == 0
DDRAM0_END == 39
DDRAM1_START == 64
DDRAM1_END == 103
MSG_TYPE_CMD == 0
MSG_TYPE_DATA == 1
MODE_UNKNOWN == 0
MODE_8BIT == 8
MODE_4BIT == 4
FONT_5x8 == 0
FONT_5x10 == 1

\* Python's None: an argument left out, an attribute not assigned yet, a pin
\* that was created as an output and never written.
None == -1

\* No exception is propagating.
NoExc == "none"
PinCountError == "Exception: Number of pins must be 4 or 8!"
RatioError == "Exception: No DDRAM -> pixel mapping for this ratio!"

\* Ordinals of the characters handed to write: 'A', 0xFF and a character
\* whose ordinal needs nine bits.
Chars == {65, 255, 256}

VARIABLES
    _ch_idx, _width, _height, _line_addr, _no_pins, _mode,
    _rs_pin, _clk_pin, _data_pins,   \* value last written to each pin
    phase,        \* "new": not constructed, "ok": instance exists,
                  \* "raised": __init__ raised, no instance exists,
                  \* "accounting": inside __init__, attributes assigned
    call,         \* the last call made: <<method name, arguments...>>
    exc,          \* the exception the last call raised, or NoExc
    log           \* the pin writes of the last call, <<pin, index, value>>,
                  \* and the _send calls that made them

vars == <<_ch_idx, _width, _height, _line_addr, _no_pins,
          _mode, _rs_pin, _clk_pin, _data_pins, phase, call, exc, log>>

\* ------------------------------------------------------ python values
\* A Python value held in _line_addr: an int (v[1]), a tuple (v) or nothing.
PyInt(n) == [type |-> "int", v |-> <<n>>]
PyTuple(s) == [type |-> "tuple", v |-> s]
PyNone == [type |-> "NoneType", v |-> <<>>]

\* The object as a record, and a call in progress on it: the object, the pin
\* writes made so far and the exception propagating (if any).
Self ==
    [ch_idx |-> _ch_idx, width |-> _width, height |-> _height,
     line_addr |-> _line_addr, no_pins |-> _no_pins, mode |-> _mode,
     rs_pin |-> _rs_pin, clk_pin |-> _clk_pin, data_pins |-> _data_pins]

Begin == [self |-> Self, log |-> <<>>, exc |-> NoExc]

Raise(m, e) == [m EXCEPT !.exc = e]

\* The register-select level inverted (high for a Command).
RsValue_Inverted(m, v) ==
    [m EXCEPT !.self.rs_pin = 1 - v, !.log = Append(@, <<"rs", 0, 1 - v>>)]

\* Pin.value(v) on the register-select, clock and data pins.
RsValue(m, v) ==
    [m EXCEPT !.self.rs_pin = v, !.log = Append(@, <<"rs", 0, v>>)]

ClkValue(m, v) ==
    [m EXCEPT !.self.clk_pin = v, !.log = Append(@, <<"clk", 0, v>>)]

\* The data pins taken in the opposite order (least significant bit on pin 0).
DataValue_Reversed(m, b, v) ==
    [m EXCEPT !.self.data_pins[m.self.no_pins - b] = v,
              !.log = Append(@, <<"d", m.self.no_pins - 1 - b, v>>)]

DataValue(m, b, v) ==
    [m EXCEPT !.self.data_pins[b + 1] = v, !.log = Append(@, <<"d", b, v>>)]

\* time.sleep_us(delay_us): the settle delay while the clock is high.
SleepUs(m, us) == [m EXCEPT !.log = Append(@, <<"sleep_us", 0, us>>)]

\* --------------------------------------------------------------- _send
\* for b in range(0, self._no_pins): self._data_pins[b].value(bit_data[i+b])
\* bit_data[i+b] past the end of the list raises IndexError before the pin
\* is written.
RECURSIVE SetDataPins(_, _, _, _)
SetDataPins(m, bit_data, i, b) ==
    IF b >= m.self.no_pins THEN m
    ELSE IF i + b >= Len(bit_data) THEN Raise(m, "IndexError")
    ELSE SetDataPins(DataValue(m, b, bit_data[i + b + 1]), bit_data, i, b + 1)

\* The clock raised and never lowered.
ClockPulse_NoFall(m) == SleepUs(ClkValue(m, 1), 1530)

\* Pins are set; toggle the clock/enable pin.
ClockPulse(m) == ClkValue(SleepUs(ClkValue(m, 1), 1530), 0)

\* for i in range(0, payload_len, self._no_pins): one chunk per iteration.
RECURSIVE SendChunks(_, _, _)
SendChunks(m, bit_data, i) ==
    IF i >= Len(bit_data) THEN m
    ELSE LET m1 == SetDataPins(m, bit_data, i, 0)
         IN  IF m1.exc # NoExc THEN m1
             ELSE SendChunks(ClockPulse(m1), bit_data, i + m.self.no_pins)

\* The call trace kept in the log beside the pin writes: _send entered with
\* these arguments (and the value _mode has then), and _send returned
\* normally from them.
Entered(m, bit_data, msg_type) ==
    [m EXCEPT !.log = Append(@, <<"_send", msg_type, bit_data, m.self.mode>>)]

Returned(m, bit_data, msg_type) ==
    IF m.exc # NoExc THEN m
    ELSE [m EXCEPT !.log = Append(@, <<"_sent", msg_type, bit_data>>)]

\* range() with a step of zero raises ValueError, after the RS pin is set.
_send(m, bit_data, msg_type) ==
    IF m.exc # NoExc THEN m
    ELSE LET m1 == RsValue(Entered(m, bit_data, msg_type),
                           IF msg_type = MSG_TYPE_DATA THEN 1 ELSE 0)
         IN  IF m1.self.no_pins = 0 THEN Raise(m1, "ValueError")
             ELSE Returned(SendChunks(m1, bit_data, 0), bit_data, msg_type)

\* ---------------------------------------------------- _init_line_addrs
\* Without the final raise: an unsupported height gets the two-row table.
_init_line_addrs_NoRaise(w, h) ==
    IF h = 1 THEN [exc |-> NoExc, val |-> PyInt(DDRAM0_START)]
    ELSE IF h = 4 THEN
        [exc |-> NoExc,
         val |-> PyTuple(<<DDRAM0_START, DDRAM1_START,
                           DDRAM0_START + 20, DDRAM1_START + 20>>)]
    ELSE [exc |-> NoExc, val |-> PyTuple(<<DDRAM0_START, DDRAM1_START>>)]

\* Rows 2 and 3 offset by 0x10 instead of 0x14.
_init_line_addrs_Offset16(w, h) ==
    IF h = 1 THEN [exc |-> NoExc, val |-> PyInt(DDRAM0_START)]
    ELSE IF h = 2 THEN
        [exc |-> NoExc, val |-> PyTuple(<<DDRAM0_START, DDRAM1_START>>)]
    ELSE IF h = 4 THEN
        [exc |-> NoExc,
         val |-> PyTuple(<<DDRAM0_START, DDRAM1_START,
                           DDRAM0_START + 16, DDRAM1_START + 16>>)]
    ELSE [exc |-> RatioError, val |-> PyNone]

\* The value returned, or the exception raised.  For h == 1 the source
\* returns (self.DDRAM0_START): a parenthesised int, not a 1-tuple.
_init_line_addrs(w, h) ==
    IF h = 1 THEN [exc |-> NoExc, val |-> PyInt(DDRAM0_START)]
    ELSE IF h = 2 THEN
        [exc |-> NoExc, val |-> PyTuple(<<DDRAM0_START, DDRAM1_START>>)]
    ELSE IF h = 4 THEN
        [exc |-> NoExc,
         val |-> PyTuple(<<DDRAM0_START, DDRAM1_START,
                           DDRAM0_START + 20, DDRAM1_START + 20>>)]
    ELSE [exc |-> RatioError, val |-> PyNone]

\* ---------------------------------------------------------- accessors
\* The mode property: derived from the number of pins, not from _mode.
mode(self) ==
    IF self.no_pins = 8 THEN MODE_8BIT
    ELSE IF self.no_pins = 4 THEN MODE_4BIT
    ELSE MODE_UNKNOWN

\* ------------------------------------------------------- mode switches
RECURSIVE Send8bitReset(_, _)
Send8bitReset(m, times) ==
    IF times = 0 THEN m
    ELSE Send8bitReset(_send(m, <<0, 0, 1, 1>>, MSG_TYPE_CMD), times - 1)

set_8bit_mode(m) ==
    IF m.exc # NoExc THEN m
    ELSE LET m1 == Send8bitReset(m, 3)
         IN  IF m1.exc # NoExc THEN m1 ELSE [m1 EXCEPT !.self.mode = MODE_8BIT]

\* The switch sent without looking at the tracked mode.
set_4bit_mode_NoReset(m) == _send(m, <<0, 0, 1, 0>>, MSG_TYPE_CMD)

set_4bit_mode(m) ==
    IF m.exc # NoExc THEN m
    ELSE LET m1 == IF m.self.mode # MODE_8BIT THEN set_8bit_mode(m) ELSE m
         IN  _send(m1, <<0, 0, 1, 0>>, MSG_TYPE_CMD)

\* ---------------------------------------------------- command encoders
clear(m) == _send(m, <<0, 0, 0, 0, 0, 0, 0, 1>>, MSG_TYPE_CMD)

\* home also resetting the software cursor counter.
home_ResetsCursor(m) ==
    LET m1 == _send(m, <<0, 0, 0, 0, 0, 0, 1, 0>>, MSG_TYPE_CMD)
    IN  IF m1.exc # NoExc THEN m1 ELSE [m1 EXCEPT !.self.ch_idx = 0]

home(m) == _send(m, <<0, 0, 0, 0, 0, 0, 1, 0>>, MSG_TYPE_CMD)

shift(m, s_c, r_l) == _send(m, <<0, 0, 0, 1, s_c, r_l, 0, 0>>, MSG_TYPE_CMD)

set_display_opts(m, d, c, b) ==
    _send(m, <<0, 0, 0, 0, 1, d, c, b>>, MSG_TYPE_CMD)

set_entry_mode(m, i_d, s) ==
    _send(m, <<0, 0, 0, 0, 0, 1, i_d, s>>, MSG_TYPE_CMD)

\* dl_bit = int(self._no_pins == 8)
set_function(m, n, f) ==
    LET dl_bit == IF m.self.no_pins = 8 THEN 1 ELSE 0
    IN  _send(m, <<0, 0, 1, dl_bit, n, f, 1, 1>>, MSG_TYPE_CMD)

\* ------------------------------------------------------- bit arithmetic
\* a & b, a | b and (x >> n) & 1 on non-negative ints.
RECURSIVE BitAnd(_, _)
BitAnd(a, b) ==
    IF a = 0 \/ b = 0 THEN 0
    ELSE (a % 2) * (b % 2) + 2 * BitAnd(a \div 2, b \div 2)

RECURSIVE BitOr(_, _)
BitOr(a, b) ==
    IF a = 0 THEN b
    ELSE IF b = 0 THEN a
    ELSE (IF a % 2 = 1 \/ b % 2 = 1 THEN 1 ELSE 0)
         + 2 * BitOr(a \div 2, b \div 2)

BitAt(x, n) == (x \div (2 ^ n)) % 2

\* The bits listed from the least significant one (range(0, 8)).
AddrBits_LsbFirst(addr) == [k \in 1..8 |-> BitAt(addr, k - 1)]

\* data = [(addr >> n & 1) for n in range(7,-1,-1)]
AddrBits(addr) == [k \in 1..8 |-> BitAt(addr, 8 - k)]

set_ddram(m, addr) ==
    _send(m, AddrBits(BitOr(BitAnd(addr, 255), 128)), MSG_TYPE_CMD)

set_cgram(m, addr) ==
    _send(m, AddrBits(BitOr(BitAnd(addr, 127), 64)), MSG_TYPE_CMD)

\* --------------------------------------------------------------- write
\* '{0:08b}'.format(n): the binary digits of n, most significant first,
\* padded with '0' on the left to at least 8 characters.
RECURSIVE BinDigits(_)
BinDigits(n) ==
    IF n < 2 THEN <<IF n = 1 THEN "1" ELSE "0">>
    ELSE Append(BinDigits(n \div 2), IF n % 2 = 1 THEN "1" ELSE "0")

RECURSIVE ZeroPad(_, _)
ZeroPad(s, minwidth) ==
    IF Len(s) >= minwidth THEN s ELSE ZeroPad(<<"0">> \o s, minwidth)

Format08b(n) == ZeroPad(BinDigits(n), 8)

\* data = [int(x) for x in list('{0:08b}'.format(ord(ch)))]
CharData(ord) ==
    LET digits == Format08b(ord)
    IN  [k \in 1..Len(digits) |-> IF digits[k] = "1" THEN 1 ELSE 0]

\* The counter advanced without wrapping.
NextChIdx_NoWrap(ch_idx, w, h) == ch_idx + 1

\* self._ch_idx = (self._ch_idx + 1) % (self._width * self._height)
NextChIdx(ch_idx, w, h) == (ch_idx + 1) % (w * h)

\* if line_pos == 0: self.set_ddram(self._line_addr[line_no])
\* Subscripting an int raises TypeError, an index past the tuple IndexError.
LineStart(m) ==
    IF m.self.width = 0 THEN Raise(m, "ZeroDivisionError")
    ELSE IF m.self.ch_idx % m.self.width # 0 THEN m
    ELSE LET line_no == m.self.ch_idx \div m.self.width
         IN  IF m.self.line_addr.type # "tuple" THEN Raise(m, "TypeError")
             ELSE IF line_no >= Len(m.self.line_addr.v)
                  THEN Raise(m, "IndexError")
             ELSE set_ddram(m, m.self.line_addr.v[line_no + 1])

\* The body of "for ch in buf", from the k-th character (1-based) on.
RECURSIVE WriteChars(_, _, _)
WriteChars(m, buf, k) ==
    IF m.exc # NoExc \/ k > Len(buf) THEN m
    ELSE LET m1 == _send(LineStart(m), CharData(buf[k]), MSG_TYPE_DATA)
             m2 == IF m1.exc # NoExc THEN m1
                   ELSE [m1 EXCEPT !.self.ch_idx =
                            NextChIdx(@, m1.self.width, m1.self.height)]
         IN  WriteChars(m2, buf, k + 1)

\* buf is the sequence of the ordinals of its characters.
write(m, buf) ==
    LET m1 == home(m)
    IN  IF m1.exc # NoExc THEN m1
        ELSE WriteChars([m1 EXCEPT !.self.ch_idx = 0], buf, 1)

\* ------------------------------------------------------------ __init__
\* Without the final raise: any other pin count is left in 8-bit mode.
SetModeByPins_NoRaise(m) ==
    IF m.exc # NoExc THEN m
    ELSE IF m.self.no_pins = 4 THEN set_4bit_mode(m)
    ELSE set_8bit_mode(m)

\* Set mode based on number of pins.
SetModeByPins(m) ==
    IF m.exc # NoExc THEN m
    ELSE IF m.self.no_pins = 8 THEN set_8bit_mode(m)
    ELSE IF m.self.no_pins = 4 THEN set_4bit_mode(m)
    ELSE Raise(m, PinCountError)

\* The line-count bit set whatever the height.
SetLines_AlwaysTwo(m) ==
    IF m.exc # NoExc THEN m ELSE set_function(m, 1, 0)

\* Indicate to the hardware whether the display has one line or more.
SetLines(m) ==
    IF m.exc # NoExc THEN m
    ELSE IF m.self.height = 1 THEN set_function(m, 0, 0)
    ELSE set_function(m, 1, 0)

\* The object once its pins are created and none of its attributes is set.
NewObject(pins) ==
    [ch_idx |-> None, width |-> None, height |-> None, line_addr |-> PyNone,
     no_pins |-> None, mode |-> None, rs_pin |-> None, clk_pin |-> None,
     data_pins |-> [b \in 1..pins |-> None]]

\* "Accounting": the attribute assignments, which stop at the exception
\* _init_line_addrs raises.
Accounting(pins, w, h) ==
    LET o1 == [NewObject(pins) EXCEPT !.ch_idx = 0, !.width = w, !.height = h]
        la == _init_line_addrs(w, h)
    IN  IF la.exc # NoExc THEN [self |-> o1, log |-> <<>>, exc |-> la.exc]
        ELSE [self |-> [o1 EXCEPT !.line_addr = la.val, !.no_pins = pins,
                                  !.mode = MODE_UNKNOWN],
              log |-> <<>>, exc |-> NoExc]

\* hp: the number of names in host_pins, or None for the default four.
__init__(hp, w, h, f) ==
    LET pins == IF hp = None THEN 4 ELSE hp
    IN  SetLines(clear(SetModeByPins(set_8bit_mode(Accounting(pins, w, h)))))

\* ------------------------------------------------------------- actions
\* The state a call leaves: the object, the pin writes and the exception.
Commit(r) ==
  \E m \in {r} :
    /\ _ch_idx' = m.self.ch_idx
    /\ _width' = m.self.width
    /\ _height' = m.self.height
    /\ _line_addr' = m.self.line_addr
    /\ _no_pins' = m.self.no_pins
    /\ _mode' = m.self.mode
    /\ _rs_pin' = m.self.rs_pin
    /\ _clk_pin' = m.self.clk_pin
    /\ _data_pins' = m.self.data_pins
    /\ exc' = m.exc
    /\ log' = m.log

Init ==
    /\ phase = "new"
    /\ _ch_idx = None
    /\ _width = None
    /\ _height = None
    /\ _line_addr = PyNone
    /\ _no_pins = None
    /\ _mode = None
    /\ _rs_pin = None
    /\ _clk_pin = None
    /\ _data_pins = <<>>
    /\ call = <<"none">>
    /\ exc = NoExc
    /\ log = <<>>

Bit == {0, 1}
Buffers == UNION {[1..n -> Chars] : n \in 0..MaxBuf}
Addrs == {0, 5, 64, 103, 128, 255}

Construct ==
    /\ phase = "new"
    /\ \E hp \in {None} \cup 0..MaxPins, w \in 1..MaxWidth,
          h \in 0..MaxHeight, f \in {FONT_5x8, FONT_5x10} :
          LET m == __init__(hp, w, h, f)
          IN  /\ Commit(m)
              /\ phase' = IF m.exc = NoExc THEN "ok" ELSE "raised"
              /\ call' = <<"__init__", hp, w, h, f>>

\* A public method called on the instance; an exception it raises leaves
\* the instance as it was when the exception was raised.
Called(r, c) ==
    /\ Commit(r)
    /\ call' = c
    /\ UNCHANGED phase

Clear == phase = "ok" /\ Called(clear(Begin), <<"clear">>)

Home == phase = "ok" /\ Called(home(Begin), <<"home">>)

Shift ==
    /\ phase = "ok"
    /\ \E s_c \in Bit, r_l \in Bit :
          Called(shift(Begin, s_c, r_l), <<"shift", s_c, r_l>>)

Write ==
    /\ phase = "ok"
    /\ \E buf \in Buffers : Called(write(Begin, buf), <<"write", buf>>)

Set8bitMode == phase = "ok" /\ Called(set_8bit_mode(Begin), <<"set_8bit_mode">>)

Set4bitMode == phase = "ok" /\ Called(set_4bit_mode(Begin), <<"set_4bit_mode">>)

SetDisplayOpts ==
    /\ phase = "ok"
    /\ \E d \in Bit, c \in Bit, b \in Bit :
          Called(set_display_opts(Begin, d, c, b),
                 <<"set_display_opts", d, c, b>>)

SetEntryMode ==
    /\ phase = "ok"
    /\ \E i_d \in Bit, s \in Bit :
          Called(set_entry_mode(Begin, i_d, s), <<"set_entry_mode", i_d, s>>)

SetFunction ==
    /\ phase = "ok"
    /\ \E n \in Bit, f \in Bit :
          Called(set_function(Begin, n, f), <<"set_function", n, f>>)

SetDdram ==
    /\ phase = "ok"
    /\ \E addr \in Addrs :
          Called(set_ddram(Begin, addr), <<"set_ddram", addr>>)

SetCgram ==
    /\ phase = "ok"
    /\ \E addr \in Addrs :
          Called(set_cgram(Begin, addr), <<"set_cgram", addr>>)

Next ==
    \/ Construct
    \/ Clear
    \/ Home
    \/ Shift
    \/ Write
    \/ Set8bitMode
    \/ Set4bitMode
    \/ SetDisplayOpts
    \/ SetEntryMode
    \/ SetFunction
    \/ SetDdram
    \/ SetCgram

Spec == Init /\ [][Next]_vars

\* ------------------------------------------------- _send on its own
\* The object as __init__ leaves it after "Accounting", wired with four or
\* eight data pins, and _send called on it with any payload of 4 or 8 bits.
Payloads == [1..4 -> Bit] \cup [1..8 -> Bit]

InitSend ==
    /\ phase = "accounting"
    /\ \E pins \in {4, 8} :
          LET m == Accounting(pins, MaxWidth, 2)
          IN  /\ _ch_idx = m.self.ch_idx
              /\ _width = m.self.width
              /\ _height = m.self.height
              /\ _line_addr = m.self.line_addr
              /\ _no_pins = m.self.no_pins
              /\ _mode = m.self.mode
              /\ _rs_pin = m.self.rs_pin
              /\ _clk_pin = m.self.clk_pin
              /\ _data_pins = m.self.data_pins
    /\ call = <<"none">>
    /\ exc = NoExc
    /\ log = <<>>

Send ==
    /\ phase = "accounting"
    /\ \E bit_data \in Payloads, msg_type \in {MSG_TYPE_CMD, MSG_TYPE_DATA} :
          Called(_send(Begin, bit_data, msg_type),
                 <<"_send", bit_data, msg_type>>)

NextSend == Send

SpecSend == InitSend /\ [][NextSend]_vars

\* ------------------------------------- the address commands on their own
\* An instance built with the default pins, and set_ddram and set_cgram
\* called on it with every address of 0..MaxAddr.
InitAddr ==
    /\ phase = "ok"
    /\ LET m == __init__(None, MaxWidth, 2, FONT_5x8)
       IN  /\ _ch_idx = m.self.ch_idx
           /\ _width = m.self.width
           /\ _height = m.self.height
           /\ _line_addr = m.self.line_addr
           /\ _no_pins = m.self.no_pins
           /\ _mode = m.self.mode
           /\ _rs_pin = m.self.rs_pin
           /\ _clk_pin = m.self.clk_pin
           /\ _data_pins = m.self.data_pins
           /\ exc = m.exc
           /\ log = m.log
    /\ call = <<"__init__", None, MaxWidth, 2, FONT_5x8>>

SetDdramAny ==
    /\ phase = "ok"
    /\ \E addr \in 0..MaxAddr :
          Called(set_ddram(Begin, addr), <<"set_ddram", addr>>)

SetCgramAny ==
    /\ phase = "ok"
    /\ \E addr \in 0..MaxAddr :
          Called(set_cgram(Begin, addr), <<"set_cgram", addr>>)

NextAddr ==
    \/ SetDdramAny
    \/ SetCgramAny

SpecAddr == InitAddr /\ [][NextAddr]_vars

\* ------------------------------------------- the geometry on its own
\* Construction with the default pins and font, for every width of
\* 1..MaxGeomWidth and every height of 0..MaxHeight.
ConstructGeom ==
    /\ phase = "new"
    /\ \E w \in 1..MaxGeomWidth, h \in 0..MaxHeight :
          LET m == __init__(None, w, h, FONT_5x8)
          IN  /\ Commit(m)
              /\ phase' = IF m.exc = NoExc THEN "ok" ELSE "raised"
              /\ call' = <<"__init__", None, w, h, FONT_5x8>>

NextGeom == ConstructGeom

SpecGeom == Init /\ [][NextGeom]_vars

\* ------------------------------------------ the mode switches on their own
\* The object as __init__ leaves it after "Accounting", its tracked mode
\* still MODE_UNKNOWN, for every pin count, and the two mode switches called
\* on it in any order.
InitMode ==
    /\ phase = "accounting"
    /\ \E pins \in 0..MaxPins, w \in 1..MaxWidth, h \in {1, 2, 4} :
          LET m == Accounting(pins, w, h)
          IN  /\ _ch_idx = m.self.ch_idx
              /\ _width = m.self.width
              /\ _height = m.self.height
              /\ _line_addr = m.self.line_addr
              /\ _no_pins = m.self.no_pins
              /\ _mode = m.self.mode
              /\ _rs_pin = m.self.rs_pin
              /\ _clk_pin = m.self.clk_pin
              /\ _data_pins = m.self.data_pins
    /\ call = <<"none">>
    /\ exc = NoExc
    /\ log = <<>>

Mode8bit ==
    /\ phase = "accounting"
    /\ Called(set_8bit_mode(Begin), <<"set_8bit_mode">>)

Mode4bit ==
    /\ phase = "accounting"
    /\ Called(set_4bit_mode(Begin), <<"set_4bit_mode">>)

NextMode ==
    \/ Mode8bit
    \/ Mode4bit

SpecMode == InitMode /\ [][NextMode]_vars

\* ------------------------------------------------ reading the log
\* The _send calls of the last call that returned, in order, each as
\* <<"_sent", msg_type, bit_data>>.
Transferred == SelectSeq(log, LAMBDA e : e[1] = "_sent")

\* The places in the log where the clock is raised.
ClockRises == {k \in 1..Len(log) : log[k][1] = "clk" /\ log[k][3] = 1}

\* The value pin (name, idx) holds at place k of the log: the last one
\* written to it before k in this call, None when there is none.
PinAt(name, idx, k) ==
    LET ks == {j \in 1..(k - 1) : log[j][1] = name /\ log[j][2] = idx}
    IN  IF ks = {} THEN None
        ELSE log[CHOOSE j \in ks : \A i \in ks : i <= j][3]

\* What the display latches at the clock rise at place k: the RS level and
\* the levels of data pins 0..n-1.
Latched(k, n) ==
    [rs |-> PinAt("rs", 0, k), bits |-> [b \in 1..n |-> PinAt("d", b - 1, k)]]

\* The chunks latched during the last call, in order.
RECURSIVE LatchedFrom(_, _)
LatchedFrom(k, n) ==
    IF k > Len(log) THEN <<>>
    ELSE IF k \in ClockRises THEN <<Latched(k, n)>> \o LatchedFrom(k + 1, n)
    ELSE LatchedFrom(k + 1, n)

Chunks(n) == LatchedFrom(1, n)

\* A pin was written during the last call.
PinDriven == \E k \in 1..Len(log) : log[k][1] \in {"rs", "clk", "d"}

\* The last call was the constructor, with PinsGiven names in host_pins.
Constructed == call[1] = "__init__"
PinsGiven == IF call[2] = None THEN 4 ELSE call[2]

\* ----------------------------------------------------------- claims
\* C1: after any sequence of public operations, clear() leaves the internal
\* cursor counter _ch_idx equal to 0.
C1_ClearResetsCursor ==
    (phase = "ok" /\ call[1] = "clear" /\ exc = NoExc) => _ch_idx = 0

\* C2: construction with 4 or 8 data pins and a height in {1,2,4} completes
\* without raising: the mode sequence, the clear and the function-set are
\* all sent and an instance exists.
C2_ConstructionSucceeds ==
    (Constructed /\ PinsGiven \in {4, 8} /\ _height \in {1, 2, 4}) =>
        /\ phase = "ok"
        /\ exc = NoExc
        /\ Len(Transferred) >= 2
        /\ Transferred[Len(Transferred) - 1][3] = <<0, 0, 0, 0, 0, 0, 0, 1>>
        /\ SubSeq(Transferred[Len(Transferred)][3], 1, 3) = <<0, 0, 1>>

\* C3: during construction with 4 or 8 data pins the 8-bit reset command
\* (0,0,1,1) is transferred exactly three times in total, all three before
\* any switch-to-4-bit command (0,0,1,0).
IsReset(e) == e[2] = MSG_TYPE_CMD /\ e[3] = <<0, 0, 1, 1>>
IsSwitch(e) == e[2] = MSG_TYPE_CMD /\ e[3] = <<0, 0, 1, 0>>
ResetsBefore(j) == Cardinality({k \in 1..(j - 1) : IsReset(Transferred[k])})

C3_ThreeResetsFirst ==
    (Constructed /\ PinsGiven \in {4, 8} /\ _height \in {1, 2, 4}) =>
        /\ ResetsBefore(Len(Transferred) + 1) = 3
        /\ \A j \in 1..Len(Transferred) :
              IsSwitch(Transferred[j]) => ResetsBefore(j) = 3

\* C4: for every data pin count other than 4 and 8, construction never
\* completes normally: it ends by raising and no instance exists.
C4_BadPinCountRaises ==
    (Constructed /\ PinsGiven \notin {4, 8}) =>
        (phase = "raised" /\ exc # NoExc)

C4_Witness ==
    /\ Constructed
    /\ PinsGiven = 2
    /\ _height = 2
    /\ phase = "raised"
    /\ exc = PinCountError

\* C5: with a data pin count other than 4 or 8 the error is raised
\* immediately: no data pin, register-select pin or clock pin is driven and
\* no clock pulse is emitted before it.
C5_FailsBeforeDrivingPins ==
    (Constructed /\ PinsGiven \notin {4, 8}) =>
        (exc # NoExc /\ ~PinDriven /\ ClockRises = {})

\* C6: construction with a height outside {1,2,4} (any width, any pin
\* count) raises the configuration error at line-address computation,
\* before any command is transferred: no clock pulse has been emitted.
C6_BadHeightRaisesFirst ==
    (Constructed /\ _height \notin {1, 2, 4}) =>
        /\ phase = "raised"
        /\ exc = RatioError
        /\ ClockRises = {}
        /\ Transferred = <<>>

C6_Witness ==
    /\ Constructed
    /\ _height = 3
    /\ PinsGiven = 4
    /\ phase = "raised"
    /\ exc = RatioError

\* C7: for every height in {1,2,4} and every width the line-address table
\* is an indexable sequence with exactly `height` entries, each within the
\* DDRAM range 0x00..0x67.
C7_LineAddrTable ==
    (Constructed /\ _height \in {1, 2, 4}) =>
        /\ _line_addr.type = "tuple"
        /\ Len(_line_addr.v) = _height
        /\ \A r \in 1..Len(_line_addr.v) :
              _line_addr.v[r] \in DDRAM0_START..DDRAM1_END

\* C8: for every supported geometry and every buffer of characters with
\* 8-bit ordinals, write(buf) completes without error and emits exactly: the
\* home command; then for the k-th character (k = 0..n-1), when
\* (k mod (width*height)) mod width = 0, a set-DDRAM-address command with
\* the base address of row (k mod (width*height)) div width, and then the
\* character's ordinal as a Data message.
Byte(n) == [k \in 1..8 |-> (n \div (2 ^ (8 - k))) % 2]
RowBase(r) == IF r = 0 THEN 0 ELSE IF r = 1 THEN 64 ELSE IF r = 2 THEN 20 ELSE 84

RECURSIVE ExpectedFrom(_, _)
ExpectedFrom(buf, k) ==
    IF k >= Len(buf) THEN <<>>
    ELSE LET pos == k % (_width * _height)
         IN  (IF pos % _width = 0
              THEN <<<<"_sent", MSG_TYPE_CMD, Byte(128 + RowBase(pos \div _width))>>>>
              ELSE <<>>)
             \o <<<<"_sent", MSG_TYPE_DATA, Byte(buf[k + 1])>>>>
             \o ExpectedFrom(buf, k + 1)

ExpectedWrite(buf) ==
    <<<<"_sent", MSG_TYPE_CMD, <<0, 0, 0, 0, 0, 0, 1, 0>>>>>>
    \o ExpectedFrom(buf, 0)

C8_WriteEmits ==
    (phase = "ok" /\ call[1] = "write"
        /\ \A k \in 1..Len(call[2]) : call[2][k] < 256) =>
        (exc = NoExc /\ Transferred = ExpectedWrite(call[2]))

\* C9: the cursor counter stays in [0, width*height); a write of exactly
\* width*height characters leaves it at 0, and the next character of the
\* write is preceded by the set-DDRAM-address command of row 0's base
\* address and leaves the counter at 1 (for width*height > 1).
C9_CursorWraps ==
    phase = "ok" =>
        /\ _ch_idx \in 0..(_width * _height - 1)
        /\ (call[1] = "write" /\ exc = NoExc
                /\ Len(call[2]) = _width * _height) => _ch_idx = 0
        /\ (call[1] = "write" /\ exc = NoExc /\ _width * _height > 1
                /\ Len(call[2]) = _width * _height + 1) =>
              /\ _ch_idx = 1
              /\ Len(Transferred) >= 2
              /\ Transferred[Len(Transferred) - 1] =
                    <<"_sent", MSG_TYPE_CMD, <<1, 0, 0, 0, 0, 0, 0, 0>>>>
              /\ Transferred[Len(Transferred)][2] = MSG_TYPE_DATA

C9_Witness ==
    /\ phase = "ok"
    /\ call[1] = "write"
    /\ exc = NoExc
    /\ _width * _height > 1
    /\ Len(call[2]) = _width * _height + 1
    /\ _ch_idx = 1

\* C10: for every 8-bit payload passed to _send, with 4 data pins there are
\* exactly two chunk transfers (two clock pulses), bits 7..4 and then bits
\* 3..0 on data pins 0..3; with 8 data pins exactly one chunk transfer (one
\* clock pulse) with bits 7..0 on data pins 0..7.
C10_ChunksPerByte ==
    (call[1] = "_send" /\ Len(call[2]) = 8) =>
        LET rs == IF call[3] = MSG_TYPE_DATA THEN 1 ELSE 0
        IN  /\ exc = NoExc
            /\ _no_pins = 4 =>
                  /\ Cardinality(ClockRises) = 2
                  /\ Chunks(4) = <<[rs |-> rs, bits |-> SubSeq(call[2], 1, 4)],
                                   [rs |-> rs, bits |-> SubSeq(call[2], 5, 8)]>>
            /\ _no_pins = 8 =>
                  /\ Cardinality(ClockRises) = 1
                  /\ Chunks(8) = <<[rs |-> rs, bits |-> call[2]]>>

C10_Witness4 ==
    /\ call[1] = "_send"
    /\ call[2] = <<1, 0, 1, 0, 0, 1, 0, 1>>
    /\ _no_pins = 4
    /\ exc = NoExc
    /\ Cardinality(ClockRises) = 2


\* C11: for every address a, set_ddram(a) sends as a Command the 8-bit
\* pattern of (a & 0xFF) | 0x80, most significant bit first, and
\* set_cgram(a) that of (a & 0x7F) | 0x40: set_ddram(0x05) sends 0x85,
\* set_cgram(0x05) sends 0x45, every set_ddram byte has bit 7 set and every
\* set_cgram byte has bit 7 clear and bit 6 set.
C11_AddressBytes ==
    /\ call[1] = "set_ddram" =>
          /\ exc = NoExc
          /\ Transferred =
                <<<<"_sent", MSG_TYPE_CMD, Byte(128 + (call[2] % 128))>>>>
          /\ Transferred[1][3][1] = 1
          /\ call[2] = 5 => Transferred[1][3] = <<1, 0, 0, 0, 0, 1, 0, 1>>
    /\ call[1] = "set_cgram" =>
          /\ exc = NoExc
          /\ Transferred =
                <<<<"_sent", MSG_TYPE_CMD, Byte(64 + (call[2] % 64))>>>>
          /\ Transferred[1][3][1] = 0
          /\ Transferred[1][3][2] = 1
          /\ call[2] = 5 => Transferred[1][3] = <<0, 1, 0, 0, 0, 1, 0, 1>>

C11_Witness ==
    /\ call = <<"set_ddram", 5>>
    /\ exc = NoExc
    /\ Transferred = <<<<"_sent", MSG_TYPE_CMD, <<1, 0, 0, 0, 0, 1, 0, 1>>>>>>


\* C12: the font chosen at construction (5x8 = 0 or 5x10 = 1) is forwarded
\* verbatim into the function-set command the constructor sends: the font
\* bit of that command equals the configured font.
C12_FontForwarded ==
    (Constructed /\ phase = "ok") =>
        LET last == Transferred[Len(Transferred)][3]
        IN  /\ SubSeq(last, 1, 3) = <<0, 0, 1>>
            /\ last[6] = call[5]


\* C13: in every successful construction the commands are transferred in
\* this order: the mode-transition commands (the 8-bit resets, then the
\* 4-bit switch when 4 pins are configured), then the clear command (0x01),
\* then as the last command a function-set whose line-count bit is 0
\* exactly when height is 1; no mode-transition command follows the clear.
C13_ConstructionOrder ==
    (Constructed /\ phase = "ok") =>
        LET T == Transferred
            n == Len(T)
        IN  /\ n >= 5
            /\ \A k \in 1..n : T[k][2] = MSG_TYPE_CMD
            /\ \A k \in 1..(n - 2) : IsReset(T[k]) \/ IsSwitch(T[k])
            /\ \A j \in 1..(n - 2), k \in 1..(n - 2) :
                  (IsSwitch(T[j]) /\ IsReset(T[k])) => k < j
            /\ PinsGiven = 4 => IsSwitch(T[n - 2])
            /\ T[n - 1][3] = <<0, 0, 0, 0, 0, 0, 0, 1>>
            /\ Len(T[n][3]) = 8
            /\ SubSeq(T[n][3], 1, 3) = <<0, 0, 1>>
            /\ T[n][3][5] = (IF _height = 1 THEN 0 ELSE 1)

C13_Witness ==
    /\ Constructed
    /\ phase = "ok"
    /\ _height = 1
    /\ Len(Transferred) = 6
    /\ Transferred[6][3][5] = 0


\* C14: for every geometry the constructor accepts (height in {1,2,4}, any
\* width >= 1) and every cursor index i in [0, width*height), the DDRAM
\* address of that cell, lineStart[i div width] + (i mod width), lies in
\* one of the two row segments 0x00..0x27 and 0x40..0x67.
InSegment(a) ==
    \/ a \in DDRAM0_START..DDRAM0_END
    \/ a \in DDRAM1_START..DDRAM1_END

C14_CellsAddressable ==
    (Constructed /\ phase = "ok") =>
        /\ _line_addr.type = "tuple"
        /\ \A i \in 0..(_width * _height - 1) :
              /\ i \div _width < Len(_line_addr.v)
              /\ InSegment(_line_addr.v[(i \div _width) + 1] + (i % _width))

\* C15: the line-address table for height 2 is [0x00, 0x40] and for height
\* 4 it is [0x00, 0x40, 0x14, 0x54], for every width (16x2 and 20x4 among
\* them).
C15_LineAddrValues ==
    Constructed =>
        /\ _height = 2 =>
              (_line_addr.type = "tuple" /\ _line_addr.v = <<0, 64>>)
        /\ _height = 4 =>
              (_line_addr.type = "tuple" /\ _line_addr.v = <<0, 64, 20, 84>>)

C15_Witness ==
    /\ Constructed
    /\ phase = "ok"
    /\ _width = 20
    /\ _height = 4
    /\ _line_addr.v = <<0, 64, 20, 84>>


\* The places in the log where _send is entered, the place where the _send
\* entered at k ends (the next entry, or the end of the log), and the _send
\* entry that the place k belongs to.
SendStarts == {k \in 1..Len(log) : log[k][1] = "_send"}

SendEnd(k) ==
    LET later == {j \in SendStarts : j > k}
    IN  IF later = {} THEN Len(log) + 1
        ELSE CHOOSE j \in later : \A i \in later : j <= i

SendOf(k) ==
    LET earlier == {j \in SendStarts : j < k}
    IN  CHOOSE j \in earlier : \A i \in earlier : i <= j

\* C16: in every _send call the register-select pin is written exactly
\* once, before the first clock rise of the call, to 0 for a Command and 1
\* for Data, and not again between the chunks; so RS is high at every clock
\* pulse of a character transfer and low at every clock pulse of a command
\* transfer, the set-DDRAM commands inside write included.
C16_RsOncePerSend ==
    \A k \in SendStarts :
        LET level == IF log[k][2] = MSG_TYPE_DATA THEN 1 ELSE 0
            writes == {j \in (k + 1)..(SendEnd(k) - 1) : log[j][1] = "rs"}
            rises == {r \in ClockRises : k < r /\ r < SendEnd(k)}
        IN  /\ Cardinality(writes) = 1
            /\ \A j \in writes :
                  /\ log[j][3] = level
                  /\ \A r \in rises : j < r
            /\ \A r \in rises : PinAt("rs", 0, r) = level

C16_Witness ==
    /\ phase = "ok"
    /\ call[1] = "write"
    /\ exc = NoExc
    /\ \E r1 \in ClockRises, r2 \in ClockRises :
          /\ r1 < r2
          /\ PinAt("rs", 0, r1) = 1
          /\ PinAt("rs", 0, r2) = 0

\* C17: for each chunk of a _send call all data pins of the bus are written
\* (pin 0 with the chunk's most significant bit) before the clock is raised,
\* the clock is then raised and lowered exactly once, and no data pin or
\* register-select pin changes while the clock is high; the clock pin is
\* low whenever _send returns.
C17_ChunkProtocol ==
    /\ \A r \in ClockRises :
          LET s == SendOf(r)
              bits == log[s][3]
              c == Cardinality({j \in ClockRises : s < j /\ j < r})
          IN  /\ r - _no_pins > s
              /\ (c + 1) * _no_pins <= Len(bits)
              /\ \A b \in 0..(_no_pins - 1) :
                    /\ log[r - _no_pins + b][1] = "d"
                    /\ log[r - _no_pins + b][2] = b
                    /\ log[r - _no_pins + b][3] = bits[c * _no_pins + b + 1]
              /\ r + 2 <= Len(log)
              /\ log[r + 1][1] = "sleep_us"
              /\ log[r + 2][1] = "clk"
              /\ log[r + 2][3] = 0
    /\ \A k \in 1..Len(log) :
          (log[k][1] = "clk" /\ log[k][3] = 0) => (k - 2) \in ClockRises
    /\ \A k \in 1..Len(log) :
          log[k][1] = "_sent" =>
              /\ PinAt("clk", 0, k) = 0
              /\ Cardinality({r \in ClockRises : SendOf(k) < r /\ r < k})
                    * _no_pins = Len(log[k][3])
    /\ (exc = NoExc /\ Transferred # <<>>) => _clk_pin = 0

C17_Witness ==
    /\ phase = "ok"
    /\ call[1] = "write"
    /\ exc = NoExc
    /\ Len(call[2]) = 1
    /\ Cardinality(ClockRises) = 6
    /\ _clk_pin = 0


\* C18: home() leaves the software cursor counter unchanged, and so do
\* shift, set_display_opts, set_entry_mode, set_function, set_ddram and
\* set_cgram, which also leave the geometry and the line-address table
\* unchanged; apart from the reset attributed to clear, only write (and the
\* constructor's initialisation) modifies the cursor counter.
Encoders ==
    {"home", "shift", "set_display_opts", "set_entry_mode", "set_function",
     "set_ddram", "set_cgram"}

C18_EncodersKeepCursor ==
    [][/\ call'[1] \in Encoders =>
             UNCHANGED <<_ch_idx, _width, _height, _line_addr>>
       /\ _ch_idx' # _ch_idx => call'[1] \in {"__init__", "write", "clear"}
      ]_vars

C18_Witness ==
    /\ phase = "ok"
    /\ call[1] = "home"
    /\ exc = NoExc
    /\ _ch_idx = 1


\* C19: in every reachable state, repeated calls of set_4bit_mode and calls
\* made while the tracked mode is Unknown included, the switch-to-4-bit
\* command is only transferred while the tracked bus width _mode is
\* EightBit; when the tracked mode is not EightBit, set_4bit_mode first
\* performs the three-fold 8-bit reset.
C19_SwitchOnlyFrom8bit ==
    /\ \A k \in SendStarts :
          (log[k][2] = MSG_TYPE_CMD /\ log[k][3] = <<0, 0, 1, 0>>) =>
              log[k][4] = MODE_8BIT
    /\ (call[1] = "set_4bit_mode" /\ exc = NoExc /\ log[1][4] # MODE_8BIT) =>
          Transferred = <<<<"_sent", MSG_TYPE_CMD, <<0, 0, 1, 1>>>>,
                          <<"_sent", MSG_TYPE_CMD, <<0, 0, 1, 1>>>>,
                          <<"_sent", MSG_TYPE_CMD, <<0, 0, 1, 1>>>>,
                          <<"_sent", MSG_TYPE_CMD, <<0, 0, 1, 0>>>>>>

C19_Witness ==
    /\ call[1] = "set_4bit_mode"
    /\ exc = NoExc
    /\ _no_pins = 4
    /\ log[1][4] = MODE_UNKNOWN
    /\ Len(Transferred) = 4


\* C20: after set_4bit_mode completes, and so after construction with 4
\* data pins, the tracked bus width _mode is FourBit and agrees with the
\* value the public mode accessor returns; after set_8bit_mode completes
\* the tracked bus width is EightBit and agrees with the accessor.
C20_TrackedModeAgrees ==
    (phase = "ok" /\ exc = NoExc) =>
        /\ (call[1] = "set_4bit_mode" \/ (Constructed /\ PinsGiven = 4)) =>
              (_mode = MODE_4BIT /\ _mode = mode(Self))
        /\ call[1] = "set_8bit_mode" =>
              (_mode = MODE_8BIT /\ _mode = mode(Self))

====
